---- MODULE Spec2Model ----
(***************************************************************************)
(* A model of the sandboxed workspace of Claude Plus: the path resolver    *)
(* (shared_utils.get_safe_path), the verified file primitives of           *)
(* shared_utils.py, the cached project state of project_state.py and the   *)
(* virtual console of backend.py.                                          *)
(*                                                                         *)
(* Strings are sequences of one-character strings, so that stripping,      *)
(* splitting and joining are computed as the library computes them.  Path  *)
(* semantics are those of pathlib / os.path on POSIX: "/" is the only      *)
(* separator and a backslash is an ordinary character of a name.           *)
(* A filesystem location is the sequence of its component names from "/".  *)
(***************************************************************************)
EXTENDS Integers, Sequences, FiniteSets, TLC

VARIABLES
  fsDirs,      \* the directories that exist (canonical locations)
  fsFiles,     \* the regular files that exist: location -> content
  heap,        \* the project-state dict objects: id -> [folders, files]
  modRef,      \* project_state.project_state: the object the module global names
  backRef,     \* backend.project_state: the object backend's global names
  snapshot,    \* the content of project_state.json
  cwd,         \* backend.current_working_directory, a string
  phase,       \* "imported" | "serving" | "failed" (startup raised)
  last,        \* the last completed call: what it was given and how it ended
  served,      \* the number of requests served since startup
  input,       \* resolver harness: the string handed to get_safe_path
  resolved,    \* resolver harness: what get_safe_path answered for input
  retry,       \* retry harness: one run of retry_file_operation
  tasks,       \* interleaving harness: the calls in flight, slot -> frame
  expected,    \* interleaving harness: what the successful calls add up to
  shell        \* shell harness: one execute_shell_command call and its process

vars == <<fsDirs, fsFiles, heap, modRef, backRef, snapshot, cwd, phase, last,
          served, input, resolved, retry, tasks, expected, shell>>

\* the harness variables the request handlers never touch
aux == <<retry, tasks, expected, shell>>

(***************************************************************************)
(* Strings                                                                 *)
(***************************************************************************)
SEP == "/"
BSL == "\\"
DOT == "."
DotDot == <<DOT, DOT>>

RECURSIVE LStrip(_, _)
\* str.lstrip(ch)
LStrip(s, ch) ==
  IF s # <<>> /\ Head(s) = ch THEN LStrip(Tail(s), ch) ELSE s

RECURSIVE Split(_, _)
\* str.split(sep): the pieces between separators, empty pieces kept
Split(s, sep) ==
  IF s = <<>> THEN << <<>> >>
  ELSE LET rest == Split(Tail(s), sep) IN
       IF Head(s) = sep THEN << <<>> >> \o rest
       ELSE << <<Head(s)>> \o Head(rest) >> \o Tail(rest)

RECURSIVE Join(_, _)
\* sep.join(segs)
Join(segs, sep) ==
  IF segs = <<>> THEN <<>>
  ELSE IF Len(segs) = 1 THEN segs[1]
  ELSE segs[1] \o <<sep>> \o Join(Tail(segs), sep)

\* str.replace(a, b) for single characters
Replace(s, a, b) == [i \in 1..Len(s) |-> IF s[i] = a THEN b ELSE s[i]]

StartsWith(s, pre) ==
  Len(pre) <= Len(s) /\ SubSeq(s, 1, Len(pre)) = pre

(***************************************************************************)
(* Paths (pathlib.PurePosixPath, os.path on POSIX)                         *)
(***************************************************************************)
\* the leading slashes that count: posixpath keeps exactly two, else one
Slashes(s) ==
  IF s = <<>> \/ Head(s) # SEP THEN 0
  ELSE IF StartsWith(s, <<SEP, SEP>>) /\ ~StartsWith(s, <<SEP, SEP, SEP>>) THEN 2
  ELSE 1

\* PurePosixPath(s): empty and "." components are dropped, ".." is kept
PurePath(s) ==
  [anchored |-> Slashes(s) > 0,
   root |-> [i \in 1..Slashes(s) |-> SEP],
   parts |-> SelectSeq(Split(s, SEP), LAMBDA seg : seg # <<>> /\ seg # <<DOT>>)]

\* str(path), path.as_posix()
PathStr(p) ==
  IF p.anchored THEN p.root \o Join(p.parts, SEP)
  ELSE IF p.parts = <<>> THEN <<DOT>> ELSE Join(p.parts, SEP)

\* path / s: an absolute right operand replaces the left one
JoinPath(a, s) ==
  LET b == PurePath(s) IN
  IF b.anchored THEN b
  ELSE [a EXCEPT !.parts = @ \o b.parts]

\* path.parent
Parent(p) ==
  [p EXCEPT !.parts = IF @ = <<>> THEN <<>> ELSE SubSeq(@, 1, Len(@) - 1)]

DirName(loc) == IF loc = <<>> THEN <<>> ELSE SubSeq(loc, 1, Len(loc) - 1)

\* os.path.join(a, b)
OsPathJoin(a, b) ==
  IF b # <<>> /\ Head(b) = SEP THEN b
  ELSE IF a = <<>> \/ a[Len(a)] = SEP THEN a \o b
  ELSE a \o <<SEP>> \o b

RECURSIVE NormComps(_, _, _)
\* the component loop of posixpath.normpath
NormComps(comps, acc, rooted) ==
  IF comps = <<>> THEN acc
  ELSE LET c == Head(comps) IN
    IF c = <<>> \/ c = <<DOT>> THEN NormComps(Tail(comps), acc, rooted)
    ELSE IF c # DotDot
              \/ (~rooted /\ acc = <<>>)
              \/ (acc # <<>> /\ acc[Len(acc)] = DotDot)
      THEN NormComps(Tail(comps), Append(acc, c), rooted)
    ELSE IF acc # <<>>
      THEN NormComps(Tail(comps), SubSeq(acc, 1, Len(acc) - 1), rooted)
    ELSE NormComps(Tail(comps), acc, rooted)

\* os.path.normpath(s)
NormPath(s) ==
  IF s = <<>> THEN <<DOT>>
  ELSE
    LET slashes == Slashes(s)
        comps == NormComps(Split(s, SEP), <<>>, slashes > 0)
        body == Join(comps, SEP)
        out == [i \in 1..slashes |-> SEP] \o body
    IN IF out = <<>> THEN <<DOT>> ELSE out

(***************************************************************************)
(* The sandbox root and the symbolic links of the environment              *)
(***************************************************************************)
\* config.PROJECTS_DIR: "/p"
PROJECTS_DIR == <<SEP, "p">>

\* the links present in the tree: /p/s -> /o, a directory outside the root
Symlinks == << <<"p">>, <<"s">> >> :> << <<"o">> >>

RECURSIVE Realpath(_, _)
\* os.path.realpath (Path.resolve, strict=False) from "/": acc is the
\* resolved prefix, rest the components still to walk
Realpath(acc, rest) ==
  IF rest = <<>> THEN acc
  ELSE LET c == Head(rest) IN
    IF c = DotDot
      THEN Realpath(DirName(acc), Tail(rest))
    ELSE IF Append(acc, c) \in DOMAIN Symlinks
      THEN Realpath(Symlinks[Append(acc, c)], Tail(rest))
    ELSE Realpath(Append(acc, c), Tail(rest))

\* path.resolve() of an absolute path: the canonical location
Resolve(p) == Realpath(<<>>, p.parts)

\* the absolute path of a canonical location, and its string
LocPath(loc) == [anchored |-> TRUE, root |-> <<SEP>>, parts |-> loc]
LocStr(loc) == PathStr(LocPath(loc))

\* PurePath.is_relative_to: component-wise ancestry
IsRelativeTo(loc, base) == StartsWith(loc, base)

\* Path(PROJECTS_DIR).resolve()
RootLoc == Resolve(PurePath(PROJECTS_DIR))

\* get_safe_path without the is_relative_to test
get_safe_path_unchecked(path) ==
  [ok |-> TRUE,
   loc |-> Resolve(JoinPath(LocPath(RootLoc), PathStr(PurePath(LStrip(path, SEP)))))]

\* shared_utils.get_safe_path: [ok, loc]; ok = FALSE is the ValueError
get_safe_path(path) ==
  LET abs_projects_dir == LocPath(RootLoc)
      normalized_path == PathStr(PurePath(LStrip(path, SEP)))
      full_path == Resolve(JoinPath(abs_projects_dir, normalized_path))
  IN IF ~IsRelativeTo(full_path, abs_projects_dir.parts)
     THEN [ok |-> FALSE, loc |-> <<>>]
     ELSE [ok |-> TRUE, loc |-> full_path]

\* PurePath.relative_to(PROJECTS_DIR), lexical: [ok, str]
RelativeTo(p, base) ==
  LET b == PurePath(base) IN
  IF p.root = b.root /\ StartsWith(p.parts, b.parts)
  THEN [ok |-> TRUE,
        str |-> PathStr([anchored |-> FALSE, root |-> <<>>,
                         parts |-> SubSeq(p.parts, Len(b.parts) + 1, Len(p.parts))])]
  ELSE [ok |-> FALSE, str |-> <<>>]

(***************************************************************************)
(* The filesystem                                                          *)
(***************************************************************************)
\* the deepest location the model lets an operation make
MaxDepth == 3

\* the number of requests a behaviour serves after startup
MaxOps == 3

\* a location outside the root that exists from the start
OutsideDir == << <<"o">> >>

Prefixes(loc) == {SubSeq(loc, 1, k) : k \in 0..Len(loc)}

Within(loc) == IsRelativeTo(loc, RootLoc)

\* Path.mkdir(parents=True, exist_ok=True), os.makedirs(exist_ok=True):
\* fails when a component is a regular file
MkdirP(dirs, files, loc) ==
  IF \E a \in Prefixes(loc) : a \in DOMAIN files
  THEN [ok |-> FALSE, dirs |-> dirs]
  ELSE [ok |-> TRUE, dirs |-> dirs \cup Prefixes(loc)]

\* open(loc, 'w').write(data): the parent must be a directory and loc none
WriteText(dirs, files, loc, data) ==
  IF loc \in dirs \/ DirName(loc) \notin dirs
  THEN [ok |-> FALSE, files |-> files]
  ELSE [ok |-> TRUE, files |-> (loc :> data) @@ files]

\* the names in directory loc: real entries and links
Children(dirs, files, loc) ==
  {l \in dirs \cup DOMAIN files \cup DOMAIN Symlinks : l # <<>> /\ DirName(l) = loc}

\* Path.is_dir() / is_file() of a child entry, links followed
EntryIsDir(dirs, l) ==
  IF l \in DOMAIN Symlinks THEN Symlinks[l] \in dirs ELSE l \in dirs

\* what the storage keeps of a write: all of it, or a truncated (empty) text
Faults == {"none", "short"}
Stored(content, fault) == IF fault = "short" THEN "" ELSE content

(***************************************************************************)
(* The project state and its snapshot (project_state.py)                   *)
(***************************************************************************)
EmptyState == [folders |-> {}, files |-> {}]

\* the dict objects: 0 is the one made at import, which shared_utils keeps
ObjIds == {0, 1, 2}
SharedRef == 0

RECURSIVE SetToSeq(_)
\* list(a_set): the elements in the set's iteration order
SetToSeq(S) ==
  IF S = {} THEN <<>>
  ELSE LET x == CHOOSE y \in S : TRUE IN <<x>> \o SetToSeq(S \ {x})

SeqToSet(q) == {q[i] : i \in DOMAIN q}

Absent == [kind |-> "absent", data |-> <<>>]
Garbage == [kind |-> "garbage", data |-> <<>>]

\* a save that writes each set under the other's key
SaveKeysSwapped(state) ==
  [kind |-> "json",
   data |-> [k \in {"folders", "files"} |->
               IF k = "folders" THEN SetToSeq(state.files)
               ELSE SetToSeq(state.folders)]]

\* json.dump({"folders": list(...), "files": list(...)}, f)
save_state_to_file(state) ==
  [kind |-> "json",
   data |-> [k \in {"folders", "files"} |->
               IF k = "folders" THEN SetToSeq(state.folders)
               ELSE SetToSeq(state.files)]]

\* load_state_from_file: only FileNotFoundError is caught; a file that does
\* not parse (JSONDecodeError) or lacks a key (KeyError) raises
load_state_from_file(snap) ==
  IF snap.kind = "absent" THEN [ok |-> TRUE, state |-> EmptyState]
  ELSE IF snap.kind = "garbage" THEN [ok |-> FALSE, state |-> EmptyState]
  ELSE IF {"folders", "files"} \subseteq DOMAIN snap.data
    THEN [ok |-> TRUE, state |-> [folders |-> SeqToSet(snap.data["folders"]),
                                  files |-> SeqToSet(snap.data["files"])]]
  ELSE [ok |-> FALSE, state |-> EmptyState]

\* an update that ignores is_delete and always adds
update_project_state_add_only(state, path, is_folder, is_delete) ==
  LET key == IF is_folder THEN "folders" ELSE "files" IN
  [state EXCEPT ![key] = @ \cup {path}]

\* update_project_state(path, is_folder, is_delete): add path to the set
\* is_folder names, or remove it from that set
update_project_state(state, path, is_folder, is_delete) ==
  LET key == IF is_folder THEN "folders" ELSE "files" IN
  IF is_delete THEN [state EXCEPT ![key] = @ \ {path}]
  ELSE [state EXCEPT ![key] = @ \cup {path}]

\* os.path.relpath(os.path.join(root, name), PROJECTS_DIR) for an entry
\* that os.walk(PROJECTS_DIR) reports
WalkRel(l) == Join(SubSeq(l, Len(RootLoc) + 1, Len(l)), SEP)

\* the entries os.walk(PROJECTS_DIR) visits: links to directories are
\* reported as directories and not descended into
Walked(dirs, files) ==
  {l \in dirs \cup DOMAIN files \cup DOMAIN Symlinks :
     Within(l) /\ l # RootLoc /\ RootLoc \in dirs}

\* a scan that lists the root only (os.listdir in place of os.walk)
ScanStateTopOnly(dirs, files) ==
  LET top == {w \in Walked(dirs, files) : Len(w) = Len(RootLoc) + 1} IN
  [folders |-> {WalkRel(l) : l \in {w \in top : EntryIsDir(dirs, w)}},
   files |-> {WalkRel(l) : l \in {w \in top : ~EntryIsDir(dirs, w)}}]

\* the new_state built by sync_project_state_with_fs / refresh_project_state
ScanState(dirs, files) ==
  [folders |-> {WalkRel(l) : l \in {w \in Walked(dirs, files) : EntryIsDir(dirs, w)}},
   files |-> {WalkRel(l) : l \in {w \in Walked(dirs, files) : ~EntryIsDir(dirs, w)}}]

\* a dict object no global names any more is reclaimed
Collect(h, live) == [i \in ObjIds |-> IF i \in live THEN h[i] ELSE EmptyState]
FreshId(live) == CHOOSE i \in ObjIds : i \notin live

(***************************************************************************)
(* The file primitives (shared_utils.py).  Each operator computes what     *)
(* one call does to the tree: [ok, dirs, files, upd], where ok = FALSE is   *)
(* the HTTPException and upd the arguments of the update_project_state     *)
(* call that ends a successful run.                                        *)
(***************************************************************************)
Fail(dirs, files) == [ok |-> FALSE, dirs |-> dirs, files |-> files, upd |-> <<>>]

\* str(full_path.relative_to(PROJECTS_DIR)).replace(os.sep, '/')
RelStr(p) == Replace(RelativeTo(p, PROJECTS_DIR).str, SEP, "/")

create_folder(dirs, files, path) ==
  LET full_path == get_safe_path(path)
      mk == MkdirP(dirs, files, full_path.loc)
  IN IF ~full_path.ok THEN Fail(dirs, files)
     ELSE IF ~mk.ok THEN Fail(dirs, files)
     ELSE IF full_path.loc \notin mk.dirs THEN Fail(mk.dirs, files)
     ELSE [ok |-> TRUE, dirs |-> mk.dirs, files |-> files,
           upd |-> <<RelStr(LocPath(full_path.loc)), TRUE, FALSE>>]

\* the path create_file writes to: Path(PROJECTS_DIR) / normalized_path
CreateFilePath(path) ==
  LET normalized_path == Replace(LStrip(NormPath(path), SEP), BSL, "/")
  IN JoinPath(PurePath(PROJECTS_DIR), normalized_path)

create_file(dirs, files, path, content, fault) ==
  LET full_path == CreateFilePath(path)
      target == Resolve(full_path)
      mk == MkdirP(dirs, files, Resolve(Parent(full_path)))
      wr == WriteText(mk.dirs, files, target, Stored(content, fault))
      rel == RelativeTo(full_path, PROJECTS_DIR)
  IN IF ~mk.ok THEN Fail(dirs, files)
     ELSE IF ~wr.ok THEN Fail(mk.dirs, files)
     ELSE IF wr.files[target] # content THEN Fail(mk.dirs, wr.files)
     ELSE IF ~rel.ok THEN Fail(mk.dirs, wr.files)
     ELSE [ok |-> TRUE, dirs |-> mk.dirs, files |-> wr.files,
           upd |-> <<rel.str, FALSE, FALSE>>]

write_to_file(dirs, files, path, content, fault) ==
  LET full_path == get_safe_path(path)
      mk == MkdirP(dirs, files, DirName(full_path.loc))
      wr == WriteText(mk.dirs, files, full_path.loc, Stored(content, fault))
  IN IF ~full_path.ok THEN Fail(dirs, files)
     ELSE IF ~mk.ok THEN Fail(dirs, files)
     ELSE IF ~wr.ok THEN Fail(mk.dirs, files)
     ELSE IF wr.files[full_path.loc] # content THEN Fail(mk.dirs, wr.files)
     ELSE [ok |-> TRUE, dirs |-> mk.dirs, files |-> wr.files,
           upd |-> <<path, FALSE, FALSE>>]

\* read_file never raises: it returns the text, or an error string
read_file(dirs, files, path) ==
  LET full_path == get_safe_path(path) IN
  IF full_path.ok /\ full_path.loc \in DOMAIN files
  THEN [found |-> TRUE, text |-> files[full_path.loc]]
  ELSE [found |-> FALSE, text |-> "Error reading file"]

\* a delete that removes a directory together with everything below it
delete_file_recursive(dirs, files, path) ==
  LET full_path == get_safe_path(path)
      loc == full_path.loc
      below(l) == Len(l) >= Len(loc) /\ SubSeq(l, 1, Len(loc)) = loc
  IN IF ~full_path.ok THEN Fail(dirs, files)
     ELSE IF loc \notin DOMAIN files /\ loc \notin dirs THEN Fail(dirs, files)
     ELSE [ok |-> TRUE, dirs |-> {d \in dirs : ~below(d)},
           files |-> [l \in {f \in DOMAIN files : ~below(f)} |-> files[l]],
           upd |-> <<path, FALSE, TRUE>>]

delete_file(dirs, files, path) ==
  LET full_path == get_safe_path(path)
      loc == full_path.loc
      dirs2 == IF loc \in DOMAIN files THEN dirs ELSE dirs \ {loc}
      files2 == [l \in DOMAIN files \ {loc} |-> files[l]]
  IN IF ~full_path.ok THEN Fail(dirs, files)
     ELSE IF loc \notin DOMAIN files /\ loc \notin dirs THEN Fail(dirs, files)
     ELSE IF loc \in dirs /\ Children(dirs, files, loc) # {} THEN Fail(dirs, files)
     ELSE [ok |-> TRUE, dirs |-> dirs2, files |-> files2,
           \* is_folder=full_path.is_dir() is evaluated after the removal
           upd |-> <<path, loc \in dirs2, TRUE>>]

\* the entries list_files reports and feeds to project_state
Listing(dirs, files, loc) ==
  {[name |-> l[Len(l)], isDirectory |-> EntryIsDir(dirs, l), rel |-> RelStr(LocPath(l))] :
     l \in Children(dirs, files, loc)}

(***************************************************************************)
(* The virtual console (backend.py)                                        *)
(***************************************************************************)
\* str.lower() on the letters the command words use
LowerChar(ch) ==
  CASE ch = "C" -> "c" [] ch = "D" -> "d" [] ch = "L" -> "l" [] ch = "S" -> "s"
    [] OTHER -> ch
Lower(w) == [i \in 1..Len(w) |-> LowerChar(w[i])]

\* str.split(): the words between runs of blanks
SplitWords(line) == SelectSeq(Split(line, " "), LAMBDA w : w # <<>>)

\* get_relative_cwd: str(Path(cwd).relative_to(PROJECTS_DIR))
get_relative_cwd(dir) == RelativeTo(PurePath(dir), PROJECTS_DIR).str

\* a handler's answer: {"result": ..., "cwd": ...}
Answer(result, dir) == [result |-> result, cwd |-> get_relative_cwd(dir)]

\* what one console call does: [ok, dirs, files, cwd, ret]; ok = FALSE is
\* the HTTPException of console_execute_command
Reply(dirs, files, dir, result) ==
  [ok |-> TRUE, dirs |-> dirs, files |-> files, cwd |-> dir, ret |-> Answer(result, dir)]
Fault(dirs, files, dir) ==
  [ok |-> FALSE, dirs |-> dirs, files |-> files, cwd |-> dir, ret |-> <<>>]

\* a cd that joins and resolves the operand without get_safe_path
handle_cd_unchecked(dirs, files, dir, path) ==
  LET new_loc == Resolve(PurePath(OsPathJoin(dir, path))) IN
  IF new_loc \in dirs
  THEN Reply(dirs, files, LocStr(new_loc), <<"Changed directory to", LocStr(new_loc)>>)
  ELSE Reply(dirs, files, dir, <<"Directory not found or access denied", path>>)

handle_cd(dirs, files, dir, path) ==
  LET new_path == get_safe_path(OsPathJoin(dir, path)) IN
  IF ~new_path.ok THEN Reply(dirs, files, dir, <<"Error changing directory">>)
  ELSE IF new_path.loc \in dirs
    THEN Reply(dirs, files, LocStr(new_path.loc),
               <<"Changed directory to", get_relative_cwd(LocStr(new_path.loc))>>)
  ELSE Reply(dirs, files, dir, <<"Directory not found or access denied", path>>)

handle_ls(dirs, files, dir) ==
  LET full_path == get_safe_path(dir) IN
  IF ~full_path.ok \/ full_path.loc \notin dirs THEN Fault(dirs, files, dir)
  ELSE Reply(dirs, files, dir,
             <<"items", {l[Len(l)] : l \in Children(dirs, files, full_path.loc)}>>)

handle_pwd(dirs, files, dir) ==
  LET full_path == get_safe_path(dir) IN
  IF ~full_path.ok THEN Fault(dirs, files, dir)
  ELSE Reply(dirs, files, dir, <<"path", LocStr(full_path.loc)>>)

handle_echo(dirs, files, dir, args) ==
  Reply(dirs, files, dir, <<"text", Join(args, " ")>>)

handle_cat(dirs, files, dir, filename) ==
  LET full_path == get_safe_path(OsPathJoin(dir, filename)) IN
  IF full_path.ok /\ full_path.loc \in DOMAIN files
  THEN Reply(dirs, files, dir, <<"content", files[full_path.loc]>>)
  ELSE Reply(dirs, files, dir, <<"Error reading file">>)

\* a mkdir that also makes the new directory the working directory
handle_mkdir_entering(dirs, files, dir, dirname) ==
  LET full_path == get_safe_path(OsPathJoin(dir, dirname))
      mk == MkdirP(dirs, files, full_path.loc)
  IN IF full_path.ok /\ mk.ok
     THEN Reply(mk.dirs, files, LocStr(full_path.loc), <<"Directory created", dirname>>)
     ELSE Reply(dirs, files, dir, <<"Error creating directory">>)

handle_mkdir(dirs, files, dir, dirname) ==
  LET full_path == get_safe_path(OsPathJoin(dir, dirname))
      mk == MkdirP(dirs, files, full_path.loc)
  IN IF full_path.ok /\ mk.ok
     THEN Reply(mk.dirs, files, dir, <<"Directory created", dirname>>)
     ELSE Reply(dirs, files, dir, <<"Error creating directory">>)

\* Path.touch(): makes an empty file when nothing is there and the parent
\* is a directory; an existing file or directory only gets a new mtime
handle_touch(dirs, files, dir, filename) ==
  LET full_path == get_safe_path(OsPathJoin(dir, filename))
      loc == full_path.loc
  IN IF ~full_path.ok THEN Reply(dirs, files, dir, <<"Error touching file">>)
     ELSE IF loc \in dirs \/ loc \in DOMAIN files
       THEN Reply(dirs, files, dir, <<"File touched", filename>>)
     ELSE IF DirName(loc) \in dirs
       THEN Reply(dirs, (loc :> "") @@ files, dir, <<"File touched", filename>>)
     ELSE Reply(dirs, files, dir, <<"Error touching file">>)

\* execute_shell_command: the process starts in get_safe_path(cwd); the
\* command itself is not interpreted and leaves the tree alone
execute_shell_command(dirs, files, dir, command) ==
  LET full_cwd == get_safe_path(dir) IN
  IF ~full_cwd.ok \/ full_cwd.loc \notin dirs THEN Fault(dirs, files, dir)
  ELSE Reply(dirs, files, dir, <<"output", command, LocStr(full_cwd.loc)>>)

Arg(command_parts, default) ==
  IF Len(command_parts) > 1 THEN command_parts[2] ELSE default

\* console_execute_command: an empty line raises IndexError, which the
\* handler turns into the HTTPException
console_execute_command(dirs, files, dir, command) ==
  LET command_parts == SplitWords(command)
      cmd == Lower(command_parts[1])
  IN IF command_parts = <<>> THEN Fault(dirs, files, dir)
     ELSE IF cmd = <<"c", "d">>
       THEN handle_cd(dirs, files, dir, Arg(command_parts, <<DOT>>))
     ELSE IF cmd = <<"l", "s">> THEN handle_ls(dirs, files, dir)
     ELSE IF cmd = <<"p", "w", "d">> THEN handle_pwd(dirs, files, dir)
     ELSE IF cmd = <<"e", "c", "h", "o">>
       THEN handle_echo(dirs, files, dir, Tail(command_parts))
     ELSE IF cmd = <<"c", "a", "t">> \/ cmd = <<"t", "y", "p", "e">>
       THEN handle_cat(dirs, files, dir, Arg(command_parts, <<>>))
     ELSE IF cmd = <<"m", "k", "d", "i", "r">>
       THEN handle_mkdir(dirs, files, dir, Arg(command_parts, <<>>))
     ELSE IF cmd = <<"t", "o", "u", "c", "h">> \/ cmd = <<"e", "c", "h", "o", ".">>
       THEN handle_touch(dirs, files, dir, Arg(command_parts, <<>>))
     ELSE execute_shell_command(dirs, files, dir, command)


(***************************************************************************)
(* Inputs                                                                  *)
(***************************************************************************)
sA == <<"a">>
sAB == <<"a", "/", "b">>
sDotAB == <<".", "/", "a", "/", "b">>
sEsc == <<".", ".", "/", "x">>
sUp == <<".", ".">>
sLinkX == <<"s", "/", "x">>

\* the paths handed to the primitives
PathArgs == {sA, sAB, sDotAB, sEsc}

\* the directories handed to list_files
ListArgs == {<<DOT>>, sA, sEsc}

\* the command lines handed to the console
ConsoleLines ==
  { <<>>,
    <<"c", "d", " ", "a">>,
    <<"C", "D", " ", ".", ".">>,
    <<"c", "d", " ", "/", ".", ".", "/", "o">>,
    <<"m", "k", "d", "i", "r", " ", "a">>,
    <<"t", "o", "u", "c", "h", " ", "a">>,
    <<"l", "s">>,
    <<"p", "w", "d">>,
    <<"c", "a", "t", " ", "a">>,
    <<"e", "c", "h", "o", " ", "a", " ", " ", "a">>,
    <<"w", "h", "o">> }

\* the texts handed to create_file / write_to_file
Contents == {"hi", "yo"}

\* what project_state.json may hold when the process starts
StartSnapshots ==
  {Absent, Garbage, save_state_to_file([folders |-> {sA}, files |-> {}])}

NoFiles == [l \in {} |-> ""]

\* the trees the root may hold when the process starts: nothing but the
\* link, or a folder "a" with a file "b" left by an earlier run
StartTrees ==
  { [dirs |-> {<<>>, RootLoc, OutsideDir}, files |-> NoFiles],
    [dirs |-> {<<>>, RootLoc, OutsideDir, RootLoc \o <<sA>>},
     files |-> (RootLoc \o <<sA, <<"b">> >>) :> "hi"] }
NoCall == [op |-> "none", arg |-> <<>>, content |-> "", ok |-> TRUE, ret |-> <<>>]
Pending == [ok |-> FALSE, loc |-> << <<"pending">> >>]

Done(op, arg, content, ok, ret) ==
  [op |-> op, arg |-> arg, content |-> content, ok |-> ok, ret |-> ret]

Shallow(dirs, files) ==
  \A l \in dirs \cup DOMAIN files : Len(l) <= MaxDepth

\* a request is accepted: the server is up and the run has room for it
Serve ==
  /\ phase = "serving"
  /\ served < MaxOps
  /\ served' = served + 1

\* the harness variables at rest
NoRetry == [pc |-> "idle"]
NoTasks == <<>>
NoShell == [pc |-> "idle"]
AuxIdle ==
  /\ retry = NoRetry
  /\ tasks = NoTasks
  /\ expected = EmptyState
  /\ shell = NoShell

(***************************************************************************)
(* The state machine: one action per handler, requests served one at a     *)
(* time                                                                    *)
(***************************************************************************)
Init ==
  /\ \E t \in StartTrees : fsDirs = t.dirs /\ fsFiles = t.files
  /\ heap = [i \in ObjIds |-> EmptyState]
  /\ modRef = 0
  /\ backRef = 0
  /\ snapshot \in StartSnapshots
  /\ cwd = PROJECTS_DIR
  /\ phase = "imported"
  /\ last = NoCall
  /\ served = 0
  /\ input = <<>>
  /\ resolved = Pending
  /\ AuxIdle

\* backend.lifespan: initialize_project_state, then sync_project_state_with_fs
Startup ==
  /\ phase = "imported"
  /\ LET ld == load_state_from_file(snapshot)
         id == FreshId({SharedRef, backRef})
         scan == ScanState(fsDirs, fsFiles)
     IN IF ~ld.ok
        THEN /\ phase' = "failed"
             /\ last' = Done("startup", <<>>, "", FALSE, <<>>)
             /\ UNCHANGED <<heap, modRef, snapshot>>
        ELSE /\ phase' = "serving"
             /\ modRef' = id
             /\ heap' = Collect([heap EXCEPT ![id] = scan], {SharedRef, backRef, id})
             /\ snapshot' = save_state_to_file(scan)
             /\ last' = Done("startup", <<>>, "", TRUE, <<>>)
  /\ UNCHANGED <<fsDirs, fsFiles, backRef, cwd, served, input, resolved>>
  /\ UNCHANGED aux

\* an end of a primitive that records the path before it looks at the outcome
FinishRecordingFirst(op, path, content, out) ==
  /\ Shallow(out.dirs, out.files)
  /\ fsDirs' = out.dirs
  /\ fsFiles' = out.files
  /\ LET st == IF out.ok
               THEN update_project_state(heap[modRef], out.upd[1], out.upd[2], out.upd[3])
               ELSE update_project_state(heap[modRef], path, op = "create_folder",
                                         op = "delete_file")
     IN /\ heap' = [heap EXCEPT ![modRef] = st]
        /\ snapshot' = save_state_to_file(st)
  /\ last' = Done(op, path, content, out.ok, <<>>)
  /\ UNCHANGED <<modRef, backRef, cwd, phase, input, resolved>>
  /\ UNCHANGED aux

\* the end of a primitive: the tree as the call left it and, on success,
\* update_project_state on the module's dict followed by the save
Finish(op, path, content, out) ==
  /\ Shallow(out.dirs, out.files)
  /\ fsDirs' = out.dirs
  /\ fsFiles' = out.files
  /\ IF out.ok
     THEN LET st == update_project_state(heap[modRef], out.upd[1], out.upd[2], out.upd[3])
          IN /\ heap' = [heap EXCEPT ![modRef] = st]
             /\ snapshot' = save_state_to_file(st)
     ELSE UNCHANGED <<heap, snapshot>>
  /\ last' = Done(op, path, content, out.ok, <<>>)
  /\ UNCHANGED <<modRef, backRef, cwd, phase, input, resolved>>
  /\ UNCHANGED aux

CreateFolder(path) ==
  /\ Serve
  /\ \E out \in {create_folder(fsDirs, fsFiles, path)} :
       Finish("create_folder", path, "", out)

CreateFile(path, content, fault) ==
  /\ Serve
  /\ \E out \in {create_file(fsDirs, fsFiles, path, content, fault)} :
       Finish("create_file", path, content, out)

WriteToFile(path, content, fault) ==
  /\ Serve
  /\ \E out \in {write_to_file(fsDirs, fsFiles, path, content, fault)} :
       Finish("write_to_file", path, content, out)

DeleteFile(path) ==
  /\ Serve
  /\ \E out \in {delete_file(fsDirs, fsFiles, path)} :
       Finish("delete_file", path, "", out)

ReadFile(path) ==
  /\ Serve
  /\ last' = Done("read_file", path, "", TRUE, read_file(fsDirs, fsFiles, path))
  /\ UNCHANGED <<fsDirs, fsFiles, heap, modRef, backRef, snapshot, cwd, phase,
                 input, resolved>>
  /\ UNCHANGED aux

\* list_files adds what it sees to the dict shared_utils imported, and
\* does not save
ListFiles(path) ==
  /\ Serve
  /\ LET full_path == get_safe_path(path)
         seen == Listing(fsDirs, fsFiles, full_path.loc)
     IN IF ~full_path.ok \/ full_path.loc \notin fsDirs
        THEN /\ last' = Done("list_files", path, "", FALSE, <<>>)
             /\ UNCHANGED heap
        ELSE /\ heap' = [heap EXCEPT ![SharedRef] =
                  [folders |-> @.folders \cup {e.rel : e \in {x \in seen : x.isDirectory}},
                   files |-> @.files \cup {e.rel : e \in {x \in seen : ~x.isDirectory}}]]
             /\ last' = Done("list_files", path, "", TRUE,
                             {[name |-> e.name, isDirectory |-> e.isDirectory] : e \in seen})
  /\ UNCHANGED <<fsDirs, fsFiles, modRef, backRef, snapshot, cwd, phase, input, resolved>>
  /\ UNCHANGED aux

\* sync_project_state_with_fs as backend.chat calls it:
\* project_state = await sync_project_state_with_fs()
ChatSync ==
  /\ Serve
  /\ LET id == FreshId({SharedRef})
         scan == ScanState(fsDirs, fsFiles)
     IN /\ modRef' = id
        /\ backRef' = id
        /\ heap' = Collect([heap EXCEPT ![id] = scan], {SharedRef, id})
        /\ snapshot' = save_state_to_file(scan)
        /\ last' = Done("sync", heap[modRef], "", TRUE, scan)
  /\ UNCHANGED <<fsDirs, fsFiles, cwd, phase, input, resolved>>
  /\ UNCHANGED aux

\* backend.refresh_project_state_endpoint -> refresh_project_state
RefreshState ==
  /\ Serve
  /\ LET id == FreshId({SharedRef, backRef})
         scan == ScanState(fsDirs, fsFiles)
     IN /\ modRef' = id
        /\ heap' = Collect([heap EXCEPT ![id] = scan], {SharedRef, backRef, id})
        /\ snapshot' = save_state_to_file(scan)
        /\ last' = Done("refresh", <<>>, "", TRUE, <<>>)
  /\ UNCHANGED <<fsDirs, fsFiles, backRef, cwd, phase, input, resolved>>
  /\ UNCHANGED aux

\* backend.clear_project_state: clear_state_file, then a rescan
ClearState ==
  /\ Serve
  /\ LET cleared == FreshId({SharedRef})
         id == FreshId({SharedRef, cleared})
         scan == ScanState(fsDirs, fsFiles)
     IN /\ backRef' = cleared
        /\ modRef' = id
        /\ heap' = [heap EXCEPT ![cleared] = EmptyState, ![id] = scan]
        /\ snapshot' = save_state_to_file(scan)
        /\ last' = Done("clear_state", <<>>, "", TRUE, <<>>)
  /\ UNCHANGED <<fsDirs, fsFiles, cwd, phase, input, resolved>>
  /\ UNCHANGED aux

\* a console call that ends with sync_project_state_with_fs
ConsoleSyncing(command) ==
  /\ Serve
  /\ \E out \in {console_execute_command(fsDirs, fsFiles, cwd, command)} :
        /\ Shallow(out.dirs, out.files)
        /\ fsDirs' = out.dirs
        /\ fsFiles' = out.files
        /\ cwd' = out.cwd
        /\ last' = Done("console", command, "", out.ok, out.ret)
        /\ LET id == FreshId({SharedRef, backRef})
               scan == ScanState(out.dirs, out.files)
           IN /\ modRef' = id
              /\ heap' = Collect([heap EXCEPT ![id] = scan], {SharedRef, backRef, id})
              /\ snapshot' = save_state_to_file(scan)
  /\ UNCHANGED <<backRef, phase, input, resolved>>
  /\ UNCHANGED aux

\* POST /api/console/execute
Console(command) ==
  /\ Serve
  /\ \E out \in {console_execute_command(fsDirs, fsFiles, cwd, command)} :
        /\ Shallow(out.dirs, out.files)
        /\ fsDirs' = out.dirs
        /\ fsFiles' = out.files
        /\ cwd' = out.cwd
        /\ last' = Done("console", command, "", out.ok, out.ret)
  /\ UNCHANGED <<heap, modRef, backRef, snapshot, phase, input, resolved>>
  /\ UNCHANGED aux

Next ==
  \/ Startup
  \/ \E p \in PathArgs : CreateFolder(p)
  \/ \E p \in PathArgs, c \in Contents, f \in Faults : CreateFile(p, c, f)
  \/ \E p \in PathArgs, c \in Contents, f \in Faults : WriteToFile(p, c, f)
  \/ \E p \in PathArgs : DeleteFile(p)
  \/ \E p \in PathArgs : ReadFile(p)
  \/ \E p \in ListArgs : ListFiles(p)
  \/ ChatSync
  \/ RefreshState
  \/ ClearState
  \/ \E line \in ConsoleLines : Console(line)

Spec == Init /\ [][Next]_vars

(***************************************************************************)
(* The resolver on its own: every string up to MaxInputLen over Alphabet   *)
(***************************************************************************)
MaxInputLen == 5
Alphabet == {SEP, DOT, BSL, "a", "s"}
Inputs == UNION {[1..k -> Alphabet] : k \in 0..MaxInputLen}

InitResolve ==
  /\ fsDirs = {<<>>, RootLoc, OutsideDir}
  /\ fsFiles = NoFiles
  /\ heap = [i \in ObjIds |-> EmptyState]
  /\ modRef = 0
  /\ backRef = 0
  /\ snapshot = Absent
  /\ cwd = PROJECTS_DIR
  /\ phase = "imported"
  /\ last = NoCall
  /\ served = 0
  /\ input \in Inputs
  /\ resolved = Pending
  /\ AuxIdle

ApplyResolve ==
  /\ resolved = Pending
  /\ resolved' = get_safe_path(input)
  /\ UNCHANGED <<fsDirs, fsFiles, heap, modRef, backRef, snapshot, cwd, phase,
                 last, served, input>>
  /\ UNCHANGED aux

SpecResolve == InitResolve /\ [][ApplyResolve]_vars

(***************************************************************************)
(* The snapshot on its own: save_state_to_file and load_state_from_file    *)
(* on every state over StoreEntries and every content the file may hold    *)
(***************************************************************************)
StoreEntries == {sA, sAB, sEsc}
StoreStates == [folders : SUBSET StoreEntries, files : SUBSET StoreEntries]

\* what project_state.json may hold: nothing, text that is no JSON, JSON
\* without the "files" key, or lists (order and repeats as they come)
FileContents ==
  {Absent, Garbage,
   [kind |-> "json", data |-> [k \in {"folders"} |-> <<sA>>]],
   [kind |-> "json", data |-> [k \in {"folders", "files"} |->
                                 IF k = "folders" THEN <<sAB, sA, sAB>> ELSE <<>>]]}

InitStore ==
  /\ fsDirs = {<<>>, RootLoc, OutsideDir}
  /\ fsFiles = NoFiles
  /\ \E st \in StoreStates : heap = [i \in ObjIds |-> IF i = SharedRef THEN st ELSE EmptyState]
  /\ modRef = 0
  /\ backRef = 0
  /\ snapshot \in FileContents
  /\ cwd = PROJECTS_DIR
  /\ phase = "imported"
  /\ last = NoCall
  /\ served = 0
  /\ input = <<>>
  /\ resolved = Pending
  /\ AuxIdle

\* await save_state_to_file(project_state)
StoreSave ==
  /\ snapshot' = save_state_to_file(heap[modRef])
  /\ last' = Done("save", <<>>, "", TRUE, <<>>)
  /\ UNCHANGED <<fsDirs, fsFiles, heap, modRef, backRef, cwd, phase, served,
                 input, resolved>>
  /\ UNCHANGED aux

\* await load_state_from_file(); arg keeps the call that came before
StoreLoad ==
  /\ \E ld \in {load_state_from_file(snapshot)} :
       last' = Done("load", last.op, "", ld.ok, IF ld.ok THEN ld.state ELSE <<>>)
  /\ UNCHANGED <<fsDirs, fsFiles, heap, modRef, backRef, snapshot, cwd, phase,
                 served, input, resolved>>
  /\ UNCHANGED aux

NextStore == StoreSave \/ StoreLoad

SpecStore == InitStore /\ [][NextStore]_vars

(***************************************************************************)
(* What the claims speak of, stated apart from the code's own tests        *)
(***************************************************************************)
\* loc is the root or lies below it, component by component
Inside(loc) ==
  /\ Len(loc) >= Len(RootLoc)
  /\ \A i \in 1..Len(RootLoc) : loc[i] = RootLoc[i]

\* loc has no ".", ".." or empty component and passes through no link
Canonical(loc) ==
  /\ \A i \in 1..Len(loc) : loc[i] \notin {<<>>, <<DOT>>, DotDot}
  /\ \A q \in Prefixes(loc) : q \notin DOMAIN Symlinks

HasDotDot(s) == \E i \in 1..Len(Split(s, SEP)) : Split(s, SEP)[i] = DotDot

\* where the relative path p leads from the root, links followed
CanonLoc(p) == Realpath(<<>>, RootLoc \o PurePath(LStrip(p, SEP)).parts)

\* where p leads when ".." is folded by name only and links are not followed
LexLoc(p) == PurePath(NormPath(PROJECTS_DIR \o <<SEP>> \o p)).parts

\* the root-relative, "/"-separated name of a location below the root
RelOf(loc) == Join(SubSeq(loc, Len(RootLoc) + 1, Len(loc)), SEP)

\* the normalized form of p, and the folders above it below the root
NormRel(p) == RelOf(CanonLoc(p))
AncestorsOf(p) ==
  {RelOf(SubSeq(CanonLoc(p), 1, k)) : k \in (Len(RootLoc) + 1)..(Len(CanonLoc(p)) - 1)}

\* the directories and files now below the root (a link counts as what it leads to)
TreeFolders ==
  {RelOf(d) : d \in {l \in fsDirs \cup DOMAIN Symlinks :
                       Inside(l) /\ l # RootLoc /\ EntryIsDir(fsDirs, l)}}
TreeFiles == {RelOf(f) : f \in {l \in DOMAIN fsFiles : Inside(l)}}
TreeState == [folders |-> TreeFolders, files |-> TreeFiles]

Primitives == {"create_folder", "create_file", "write_to_file", "delete_file", "list_files"}
Rescans == {"startup", "sync", "refresh", "clear_state"}

(* C1: for every input string get_safe_path either answers with a canonical
   location that is the sandbox root or lies below it, or raises; it never
   answers with a location outside the root.  The empty string and "." give
   the root itself. *)
C1_ResolveStaysInside ==
  resolved # Pending =>
    /\ resolved.ok => (Inside(resolved.loc) /\ Canonical(resolved.loc))
    /\ input \in {<<>>, <<DOT>>} => (resolved.ok /\ resolved.loc = RootLoc)

\* an input with a leading separator and a ".." component that is accepted
C1_Witness ==
  /\ resolved # Pending
  /\ resolved.ok
  /\ input # <<>>
  /\ Head(input) = SEP
  /\ HasDotDot(input)

(* C2: every primitive called with a path whose canonical location lies
   outside the root fails, and nothing outside the root is ever created,
   written or deleted. *)
C2_PrimitivesStayInside ==
  /\ (last.op \in Primitives /\ ~Inside(CanonLoc(last.arg))) => ~last.ok
  /\ \A l \in fsDirs \cup DOMAIN fsFiles : Inside(l) \/ l \in {<<>>} \cup {OutsideDir}

(* C3: in every reachable state the console's working directory is the
   sandbox root or a descendant of it, by name and by canonical location. *)
C3_CwdInsideRoot ==
  /\ PurePath(cwd).anchored
  /\ Inside(PurePath(cwd).parts)
  /\ Inside(Resolve(PurePath(cwd)))

\* a cd has moved the working directory away from the root
C3_Witness ==
  /\ last.op = "console"
  /\ cwd # PROJECTS_DIR

(* C4: after a successful create_file(p, c) for a path p inside the root
   with at least one parent segment, read_file(p) returns exactly c, files
   holds the normalized p and folders holds every ancestor of p. *)
C4_CreateThenRead ==
  (/\ last.op = "create_file"
   /\ last.ok
   /\ Inside(CanonLoc(last.arg))
   /\ Len(CanonLoc(last.arg)) > Len(RootLoc) + 1) =>
     /\ read_file(fsDirs, fsFiles, last.arg) = [found |-> TRUE, text |-> last.content]
     /\ NormRel(last.arg) \in heap[modRef].files
     /\ AncestorsOf(last.arg) \subseteq heap[modRef].folders

(* C5: after a successful delete_file(p), p being a normalized relative
   path, nothing exists at p and p is in neither folders nor files. *)
C5_DeleteForgets ==
  (/\ last.op = "delete_file"
   /\ last.ok
   /\ last.arg = NormRel(last.arg)) =>
     /\ CanonLoc(last.arg) \notin fsDirs \cup DOMAIN fsFiles
     /\ last.arg \notin heap[modRef].folders \cup heap[modRef].files

(* C6: once the store has been filled by a rescan, every entry of folders
   names an existing directory below the root and every entry of files an
   existing file below the root. *)
C6_CacheEntriesExist ==
  phase = "serving" =>
    /\ \A e \in heap[modRef].folders :
         Inside(LexLoc(e)) /\ EntryIsDir(fsDirs, LexLoc(e))
    /\ \A e \in heap[modRef].files :
         Inside(LexLoc(e)) /\ LexLoc(e) \in DOMAIN fsFiles

(* C7: a full rescan leaves folders and files equal to the relative paths
   of the directories and files now below the root, whatever the cache held
   before; the snapshot holds the same sets and the call returns them. *)
C7_RescanMirrorsTree ==
  /\ (last.op \in Rescans /\ last.ok) =>
       /\ heap[modRef] = TreeState
       /\ load_state_from_file(snapshot) = [ok |-> TRUE, state |-> TreeState]
  /\ last.op = "sync" => last.ret = TreeState

\* a rescan that replaced a cache differing from the tree, nested entries included
C7_Witness ==
  /\ last.op = "sync"
  /\ last.arg # last.ret
  /\ \E e \in last.ret.folders \cup last.ret.files : SEP \in SeqToSet(e)

(* C8: after every completed operation that changes the project state, the
   snapshot file holds the sets of the dict that operation wrote. *)
C8_SnapshotMatchesMemory ==
  (last.ok /\ last.op \in Rescans \cup Primitives) =>
     load_state_from_file(snapshot) =
       [ok |-> TRUE,
        state |-> IF last.op = "list_files" THEN heap[SharedRef] ELSE heap[modRef]]

(* C9: save_state_to_file(s) followed at once by load_state_from_file()
   returns a state whose folders and files equal those of s. *)
C9_SaveLoadRoundTrip ==
  (last.op = "load" /\ last.arg = "save") =>
     (last.ok /\ last.ret = heap[modRef])

\* a state with different, non-empty folders and files came back
C9_Witness ==
  /\ last.op = "load"
  /\ last.arg = "save"
  /\ last.ok
  /\ heap[modRef].folders # {}
  /\ heap[modRef].files # {}
  /\ heap[modRef].folders # heap[modRef].files

(* C10: load_state_from_file never raises, whatever project_state.json
   holds. *)
C10_LoadNeverFails ==
  last.op = "load" => last.ok

(* C11: after the reset (POST /clear_state) has returned, folders and files
   are empty in memory and project_state.json does not exist, so a load
   that follows at once returns the empty state. *)
C11_ResetEmpties ==
  (last.op = "clear_state" /\ last.ok) =>
     /\ heap[modRef] = EmptyState
     /\ snapshot = Absent
     /\ load_state_from_file(snapshot) = [ok |-> TRUE, state |-> EmptyState]

(***************************************************************************)
(* The retry wrapper on its own (shared_utils.retry_file_operation): one   *)
(* run for every ceiling up to MaxCeiling and every way the wrapped        *)
(* operation may answer its successive calls                               *)
(***************************************************************************)
MaxCeiling == 4

\* the request handlers' variables, and their values in a harness that
\* serves no request
main == <<fsDirs, fsFiles, heap, modRef, backRef, snapshot, cwd, phase, last,
          served, input, resolved>>
MainIdle ==
  /\ fsDirs = {<<>>, RootLoc, OutsideDir}
  /\ fsFiles = NoFiles
  /\ heap = [i \in ObjIds |-> EmptyState]
  /\ modRef = 0
  /\ backRef = 0
  /\ snapshot = Absent
  /\ cwd = PROJECTS_DIR
  /\ phase = "imported"
  /\ last = NoCall
  /\ served = 0
  /\ input = <<>>
  /\ resolved = Pending

\* how the wrapped operation answers its k-th call: TRUE returns, FALSE raises
Plans == [1..MaxCeiling -> BOOLEAN]

\* what the k-th call returns, and what it raises
ResultOf(k) == [kind |-> "result", call |-> k]
ErrorOf(k) == [kind |-> "error", call |-> k]
None == [kind |-> "none", call |-> 0]

InitRetry ==
  /\ MainIdle
  /\ tasks = NoTasks
  /\ expected = EmptyState
  /\ shell = NoShell
  /\ \E c \in 0..MaxCeiling, pl \in Plans :
       retry = [pc |-> "loop", max_attempts |-> c, plan |-> pl, attempt |-> 0,
                calls |-> 0, delays |-> 0, outcome |-> "none", value |-> None]

\* if attempt == max_attempts - 1 (the test that a delay follows the last failure too)
IsLastAttemptNever(attempt, max_attempts) == FALSE

\* if attempt == max_attempts - 1
IsLastAttempt(attempt, max_attempts) == attempt = max_attempts - 1

\* one pass of the loop body: result = await operation(...), return it, or
\* handle the exception
RetryAttempt ==
  /\ retry.pc = "loop"
  /\ retry.attempt < retry.max_attempts
  /\ LET k == retry.calls + 1 IN
     IF retry.plan[k]
     THEN retry' = [retry EXCEPT !.calls = k, !.pc = "done",
                                 !.outcome = "returned", !.value = ResultOf(k)]
     ELSE IF IsLastAttempt(retry.attempt, retry.max_attempts)
     THEN retry' = [retry EXCEPT !.calls = k, !.pc = "done",
                                 !.outcome = "raised", !.value = ErrorOf(k)]
     ELSE retry' = [retry EXCEPT !.calls = k, !.pc = "sleep"]
  /\ UNCHANGED <<main, tasks, expected, shell>>

\* await asyncio.sleep(delay), then the next value of range(max_attempts)
RetrySleep ==
  /\ retry.pc = "sleep"
  /\ retry' = [retry EXCEPT !.delays = @ + 1, !.attempt = @ + 1, !.pc = "loop"]
  /\ UNCHANGED <<main, tasks, expected, shell>>

\* range(max_attempts) is used up: the function ends without a return
RetryFallThrough ==
  /\ retry.pc = "loop"
  /\ retry.attempt >= retry.max_attempts
  /\ retry' = [retry EXCEPT !.pc = "done", !.outcome = "returned", !.value = None]
  /\ UNCHANGED <<main, tasks, expected, shell>>

NextRetry == RetryAttempt \/ RetrySleep \/ RetryFallThrough

SpecRetry == InitRetry /\ [][NextRetry]_vars

\* the calls, among the first c, that the plan lets succeed
SucceedingCalls(pl, c) == {k \in 1..c : pl[k]}
FirstOf(S) == CHOOSE k \in S : \A j \in S : k <= j

(* C12: with a ceiling C >= 1, an operation that fails its first N-1 calls
   and succeeds on call N <= C is called exactly N times with N-1 delays and
   its result is returned; one that fails all of its first C calls is called
   exactly C times with C-1 delays, and the error of the last call is
   raised. *)
C12_RetryCountsAttempts ==
  (retry.pc = "done" /\ retry.max_attempts >= 1) =>
     LET good == SucceedingCalls(retry.plan, retry.max_attempts) IN
     IF good # {}
     THEN /\ retry.outcome = "returned"
          /\ retry.value = ResultOf(FirstOf(good))
          /\ retry.calls = FirstOf(good)
          /\ retry.delays = FirstOf(good) - 1
     ELSE /\ retry.outcome = "raised"
          /\ retry.value = ErrorOf(retry.max_attempts)
          /\ retry.calls = retry.max_attempts
          /\ retry.delays = retry.max_attempts - 1

\* a run that failed on every call but the last the ceiling allows
C12_Witness ==
  /\ retry.pc = "done"
  /\ retry.max_attempts = MaxCeiling
  /\ retry.outcome = "returned"
  /\ retry.calls = MaxCeiling
  /\ retry.delays = MaxCeiling - 1

(* C13: the mutation primitives run under the retry wrapper: a call whose
   write or read-back fails on one attempt and would succeed on the next is
   answered with success, so a failure reaches the caller only when a
   further attempt would fail as well. *)
C13_PrimitivesRetry ==
  /\ (last.op = "create_file" /\ ~last.ok) =>
        ~create_file(fsDirs, fsFiles, last.arg, last.content, "none").ok
  /\ (last.op = "write_to_file" /\ ~last.ok) =>
        ~write_to_file(fsDirs, fsFiles, last.arg, last.content, "none").ok

(***************************************************************************)
(* Calls in flight together.  The handlers are coroutines on one event     *)
(* loop: a call gives way to the others only where it awaits               *)
(* asyncio.to_thread (the write and the read-back of create_file and       *)
(* write_to_file), and the thread's own work happens at any moment in      *)
(* between.  create_folder, delete_file, list_files and                    *)
(* sync_project_state_with_fs await nothing that suspends, so each runs in *)
(* one piece.                                                              *)
(***************************************************************************)
MaxTasks == 2
MaxCalls == 3

ConcPaths == {sA, sAB}
ConcOps == {"create_file", "write_to_file"}

Slots == 1..MaxTasks
FreeSlot == CHOOSE s \in Slots \ DOMAIN tasks : \A t \in Slots \ DOMAIN tasks : s <= t

Spawned(slot, frame) ==
  [s \in DOMAIN tasks \cup {slot} |-> IF s = slot THEN frame ELSE tasks[s]]
Reaped(slot) == [s \in DOMAIN tasks \ {slot} |-> tasks[s]]
Moved(slot, pc) == [tasks EXCEPT ![slot].pc = pc]

\* the state right after backend.lifespan on one of the start trees
InitConc ==
  /\ \E t \in StartTrees :
       /\ fsDirs = t.dirs
       /\ fsFiles = t.files
       /\ heap = [i \in ObjIds |-> IF i = 1 THEN ScanState(t.dirs, t.files) ELSE EmptyState]
       /\ snapshot = save_state_to_file(ScanState(t.dirs, t.files))
       /\ expected = ScanState(t.dirs, t.files)
  /\ modRef = 1
  /\ backRef = 0
  /\ cwd = PROJECTS_DIR
  /\ phase = "serving"
  /\ last = NoCall
  /\ served = 0
  /\ input = <<>>
  /\ resolved = Pending
  /\ retry = NoRetry
  /\ tasks = NoTasks
  /\ shell = NoShell

\* a call is accepted
Accept ==
  /\ served < MaxCalls
  /\ served' = served + 1

\* where the call writes and what it will record: create_file joins the
\* normalized path onto the root, write_to_file asks get_safe_path and
\* records the path as given
TargetOf(op, path) ==
  IF op = "create_file"
  THEN [ok |-> TRUE, loc |-> Resolve(CreateFilePath(path)),
        parent |-> Resolve(Parent(CreateFilePath(path))),
        rec |-> RelativeTo(CreateFilePath(path), PROJECTS_DIR)]
  ELSE [ok |-> get_safe_path(path).ok, loc |-> get_safe_path(path).loc,
        parent |-> DirName(get_safe_path(path).loc),
        rec |-> [ok |-> TRUE, str |-> path]]

\* create_file / write_to_file up to the first to_thread: the parent
\* directory is made and the write is handed to a thread
ConcBegin(op, path, content) ==
  /\ Accept
  /\ DOMAIN tasks # Slots
  /\ LET tg == TargetOf(op, path)
         mk == MkdirP(fsDirs, fsFiles, tg.parent)
     IN IF ~tg.ok \/ ~mk.ok
        THEN /\ last' = Done(op, path, content, FALSE, <<>>)
             /\ UNCHANGED <<fsDirs, tasks>>
        ELSE /\ fsDirs' = mk.dirs
             /\ tasks' = Spawned(FreeSlot, [op |-> op, path |-> path, content |-> content,
                                            pc |-> "write", loc |-> tg.loc,
                                            rec |-> tg.rec, got |-> ""])
             /\ UNCHANGED last
  /\ UNCHANGED <<fsFiles, heap, modRef, backRef, snapshot, cwd, phase, input,
                 resolved, retry, expected, shell>>

\* the thread's full_path.write_text(content)
ConcThreadWrite(slot) ==
  /\ slot \in DOMAIN tasks
  /\ tasks[slot].pc = "write"
  /\ LET wr == WriteText(fsDirs, fsFiles, tasks[slot].loc, tasks[slot].content) IN
     IF wr.ok
     THEN fsFiles' = wr.files /\ tasks' = Moved(slot, "wrote")
     ELSE tasks' = Moved(slot, "failed") /\ UNCHANGED fsFiles
  /\ UNCHANGED <<fsDirs, heap, modRef, backRef, snapshot, cwd, phase, last, served,
                 input, resolved, retry, expected, shell>>

\* the call resumes: the existence test, then the read-back is handed to a thread
ConcAfterWrite(slot) ==
  /\ slot \in DOMAIN tasks
  /\ tasks[slot].pc = "wrote"
  /\ IF tasks[slot].loc \in DOMAIN fsFiles \cup fsDirs
     THEN tasks' = Moved(slot, "read")
     ELSE tasks' = Moved(slot, "failed")
  /\ UNCHANGED <<main, retry, expected, shell>>

\* the thread's full_path.read_text()
ConcThreadRead(slot) ==
  /\ slot \in DOMAIN tasks
  /\ tasks[slot].pc = "read"
  /\ IF tasks[slot].loc \in DOMAIN fsFiles
     THEN tasks' = [tasks EXCEPT ![slot].pc = "readback",
                                 ![slot].got = fsFiles[tasks[slot].loc]]
     ELSE tasks' = Moved(slot, "failed")
  /\ UNCHANGED <<main, retry, expected, shell>>

\* the call resumes with the text read: the comparison, the size, then
\* update_project_state and its save, all without giving way
ConcFinish(slot) ==
  /\ slot \in DOMAIN tasks
  /\ tasks[slot].pc = "readback"
  /\ LET f == tasks[slot]
         good == /\ f.got = f.content
                 /\ f.loc \in DOMAIN fsFiles \cup fsDirs
                 /\ f.rec.ok
         st == update_project_state(heap[modRef], f.rec.str, FALSE, FALSE)
     IN /\ IF good
           THEN /\ heap' = [heap EXCEPT ![modRef] = st]
                /\ snapshot' = save_state_to_file(st)
                /\ expected' = update_project_state(expected, f.rec.str, FALSE, FALSE)
           ELSE UNCHANGED <<heap, snapshot, expected>>
        /\ last' = Done(f.op, f.path, f.content, good, <<>>)
  /\ tasks' = Reaped(slot)
  /\ UNCHANGED <<fsDirs, fsFiles, modRef, backRef, cwd, phase, served, input,
                 resolved, retry, shell>>

\* the call resumes with the thread's exception: except -> HTTPException
ConcFail(slot) ==
  /\ slot \in DOMAIN tasks
  /\ tasks[slot].pc = "failed"
  /\ last' = Done(tasks[slot].op, tasks[slot].path, tasks[slot].content, FALSE, <<>>)
  /\ tasks' = Reaped(slot)
  /\ UNCHANGED <<fsDirs, fsFiles, heap, modRef, backRef, snapshot, cwd, phase, served,
                 input, resolved, retry, expected, shell>>

\* create_folder and delete_file, each in one piece
ConcWhole(op, path) ==
  /\ Accept
  /\ \E out \in {IF op = "create_folder" THEN create_folder(fsDirs, fsFiles, path)
                 ELSE delete_file(fsDirs, fsFiles, path)} :
       /\ fsDirs' = out.dirs
       /\ fsFiles' = out.files
       /\ IF out.ok
          THEN LET st == update_project_state(heap[modRef], out.upd[1], out.upd[2], out.upd[3])
               IN /\ heap' = [heap EXCEPT ![modRef] = st]
                  /\ snapshot' = save_state_to_file(st)
                  /\ expected' = update_project_state(expected, out.upd[1], out.upd[2], out.upd[3])
          ELSE UNCHANGED <<heap, snapshot, expected>>
       /\ last' = Done(op, path, "", out.ok, <<>>)
  /\ UNCHANGED <<modRef, backRef, cwd, phase, input, resolved, retry, tasks, shell>>

\* list_files in one piece: what it sees goes to the dict shared_utils
\* imported; the project state is expected to gain the same entries
ConcListFiles(path) ==
  /\ Accept
  /\ LET full_path == get_safe_path(path)
         seen == Listing(fsDirs, fsFiles, full_path.loc)
         dirs == {e.rel : e \in {x \in seen : x.isDirectory}}
         files == {e.rel : e \in {x \in seen : ~x.isDirectory}}
     IN IF ~full_path.ok \/ full_path.loc \notin fsDirs
        THEN /\ last' = Done("list_files", path, "", FALSE, <<>>)
             /\ UNCHANGED <<heap, expected>>
        ELSE /\ heap' = [heap EXCEPT ![SharedRef] =
                           [folders |-> @.folders \cup dirs, files |-> @.files \cup files]]
             /\ expected' = [folders |-> expected.folders \cup dirs,
                             files |-> expected.files \cup files]
             /\ last' = Done("list_files", path, "", TRUE, <<>>)
  /\ UNCHANGED <<fsDirs, fsFiles, modRef, backRef, snapshot, cwd, phase, input,
                 resolved, retry, tasks, shell>>

\* sync_project_state_with_fs (from backend.chat) in one piece
ConcSync ==
  /\ Accept
  /\ LET id == FreshId({SharedRef})
         scan == ScanState(fsDirs, fsFiles)
     IN /\ modRef' = id
        /\ backRef' = id
        /\ heap' = Collect([heap EXCEPT ![id] = scan], {SharedRef, id})
        /\ snapshot' = save_state_to_file(scan)
        /\ expected' = scan
        /\ last' = Done("sync", <<>>, "", TRUE, <<>>)
  /\ UNCHANGED <<fsDirs, fsFiles, cwd, phase, input, resolved, retry, tasks, shell>>

NextConc ==
  \/ \E op \in ConcOps, p \in ConcPaths, c \in Contents : ConcBegin(op, p, c)
  \/ \E s \in Slots : ConcThreadWrite(s)
  \/ \E s \in Slots : ConcAfterWrite(s)
  \/ \E s \in Slots : ConcThreadRead(s)
  \/ \E s \in Slots : ConcFinish(s)
  \/ \E s \in Slots : ConcFail(s)
  \/ \E op \in {"create_folder", "delete_file"}, p \in ConcPaths : ConcWhole(op, p)
  \/ \E p \in ListArgs : ConcListFiles(p)
  \/ ConcSync

SpecConc == InitConc /\ [][NextConc]_vars

(* C14: for every interleaving of mutation primitives, list_files and full
   rescans, once every call has completed the project state in memory and
   the snapshot hold what the successful calls add up to: no update is lost
   or overwritten. *)
C14_NoLostUpdate ==
  DOMAIN tasks = {} =>
     /\ heap[modRef] = expected
     /\ load_state_from_file(snapshot) = [ok |-> TRUE, state |-> expected]

(***************************************************************************)
(* What the console claims speak of                                        *)
(***************************************************************************)
\* the step is one console call for the given command line
ConsoleStep(line) ==
  /\ served' = served + 1
  /\ last'.op = "console"
  /\ last'.arg = line

\* the command word of a line, lower-cased, and its first operand
CommandWord(line) ==
  IF SplitWords(line) = <<>> THEN <<>> ELSE Lower(SplitWords(line)[1])
Operand(line, default) == Arg(SplitWords(line), default)

\* where the operand leads from directory dir (a string), links followed
OperandLoc(dir, operand) == Resolve(PurePath(OsPathJoin(dir, operand)))

\* the absolute path of directory d directly under the root
UnderRoot(d) == PROJECTS_DIR \o <<SEP>> \o d

wCd == <<"c", "d">>
wPwd == <<"p", "w", "d">>
wMkdir == <<"m", "k", "d", "i", "r">>
PathWords == {wCd, <<"c", "a", "t">>, <<"t", "y", "p", "e">>, wMkdir,
              <<"t", "o", "u", "c", "h">>, <<"e", "c", "h", "o", ".">>}
Vocabulary == PathWords \cup {<<"l", "s">>, wPwd, <<"e", "c", "h", "o">>}

(* C15: with the working directory at the root and no entry d there,
   "mkdir d" makes root/d, "cd d" then leaves the working directory at
   root/d, "pwd" there reports a path ending in "/d", and a cd to a name
   that does not exist answers not-found without failing and leaves the
   working directory unchanged. *)
C15_ConsoleScenario ==
  [][\A line \in ConsoleLines : ConsoleStep(line) =>
       LET d == Operand(line, <<>>)
           there == OperandLoc(cwd, d)
       IN /\ (CommandWord(line) = wMkdir /\ cwd = PROJECTS_DIR
                /\ there \notin fsDirs \cup DOMAIN fsFiles)
              => (last'.ok /\ there \in fsDirs')
          /\ (CommandWord(line) = wCd /\ cwd = PROJECTS_DIR /\ d = sA
                /\ there \in fsDirs)
              => (last'.ok /\ cwd' = UnderRoot(d))
          /\ (CommandWord(line) = wPwd /\ cwd = UnderRoot(sA))
              => (last'.ok /\ last'.ret.result = <<"path", UnderRoot(sA)>>)
          /\ (CommandWord(line) = wCd /\ d = sA
                /\ there \notin fsDirs \cup DOMAIN fsFiles)
              => (/\ last'.ok
                  /\ last'.ret.result[1] = "Directory not found or access denied"
                  /\ cwd' = cwd)
    ]_vars

(* C16: whenever the operand of cd, taken from the working directory, names
   a directory that exists inside the root, the call sets the working
   directory to exactly that directory and reports it as the new cwd. *)
C16_CdEntersExistingDir ==
  [][\A line \in ConsoleLines :
       (/\ ConsoleStep(line)
        /\ CommandWord(line) = wCd
        /\ Inside(OperandLoc(cwd, Operand(line, <<DOT>>)))
        /\ OperandLoc(cwd, Operand(line, <<DOT>>)) \in fsDirs)
       => (/\ last'.ok
           /\ cwd' = LocStr(OperandLoc(cwd, Operand(line, <<DOT>>)))
           /\ last'.ret.cwd = get_relative_cwd(cwd'))
    ]_vars

(* C17: a console call for a line that needs no shell process and whose
   operand does not leave the root never fails: it returns a response that
   carries a result. *)
C17_ConsoleNeverAborts ==
  (/\ last.op = "console"
   /\ CommandWord(last.arg) \in Vocabulary \cup {<<>>}
   /\ CommandWord(last.arg) \in PathWords =>
        Inside(OperandLoc(cwd, Operand(last.arg, <<>>))))
  => (last.ok /\ "result" \in DOMAIN last.ret)

(* C18: a console call whose cd, cat/type, mkdir or touch operand resolves
   outside the root fails the call; it does not return a response that
   carries an error string. *)
C18_ConsoleViolationFaults ==
  (/\ last.op = "console"
   /\ CommandWord(last.arg) \in PathWords
   /\ ~Inside(OperandLoc(cwd, Operand(last.arg, <<>>))))
  => ~last.ok

(***************************************************************************)
(* The shell fallback on its own (backend.execute_shell_command): one call *)
(* and the process it spawns, which runs for up to MaxRun steps of its own *)
(* or never exits                                                          *)
(***************************************************************************)
MaxRun == 3

\* how long the spawned process runs: Forever is a process that never exits
Forever == -1
RunTimes == {Forever} \cup (0..MaxRun)

\* command lines outside the console's vocabulary
ShellLines == {<<"w", "h", "o">>, <<"a">>, <<"s", " ", "a">>}

\* the trees the call may find: the start trees, and one where the
\* directory get_safe_path names for the root's own path exists
ShellTrees ==
  StartTrees \cup
  {[dirs |-> {<<>>, RootLoc, OutsideDir, get_safe_path(PROJECTS_DIR).loc}, files |-> NoFiles]}

InitShell ==
  /\ \E t \in ShellTrees : fsDirs = t.dirs /\ fsFiles = t.files
  /\ heap = [i \in ObjIds |-> EmptyState]
  /\ modRef = 0
  /\ backRef = 0
  /\ snapshot = Absent
  /\ cwd = PROJECTS_DIR
  /\ phase = "serving"
  /\ last = NoCall
  /\ served = 0
  /\ input = <<>>
  /\ resolved = Pending
  /\ retry = NoRetry
  /\ tasks = NoTasks
  /\ expected = EmptyState
  /\ \E line \in ShellLines, n \in RunTimes :
       shell = [pc |-> "spawn", command |-> line, proc |-> "none", left |-> n,
                ran |-> 0, result |-> <<>>]

\* full_cwd = str(get_safe_path(cwd)); asyncio.create_subprocess_shell(...,
\* cwd=full_cwd): raises when full_cwd is no directory
ShellSpawn ==
  /\ shell.pc = "spawn"
  /\ LET full_cwd == get_safe_path(cwd) IN
     IF ~full_cwd.ok \/ full_cwd.loc \notin fsDirs
     THEN shell' = [shell EXCEPT !.pc = "faulted"]
     ELSE shell' = [shell EXCEPT !.pc = "communicate", !.proc = "running"]
  /\ UNCHANGED <<main, retry, tasks, expected>>

\* the process does a step of its own work
ProcRun ==
  /\ shell.proc = "running"
  /\ shell.left > 0
  /\ shell' = [shell EXCEPT !.left = @ - 1, !.ran = @ + 1]
  /\ UNCHANGED <<main, retry, tasks, expected>>

\* the process exits
ProcExit ==
  /\ shell.proc = "running"
  /\ shell.left = 0
  /\ shell' = [shell EXCEPT !.proc = "exited"]
  /\ UNCHANGED <<main, retry, tasks, expected>>

\* stdout, stderr = await result.communicate() completes once the process
\* has exited; the output is returned
ShellCollect ==
  /\ shell.pc = "communicate"
  /\ shell.proc = "exited"
  /\ shell' = [shell EXCEPT !.pc = "returned", !.result = <<"output", shell.command>>]
  /\ UNCHANGED <<main, retry, tasks, expected>>

NextShell == ShellSpawn \/ ProcRun \/ ProcExit \/ ShellCollect

\* the event loop runs every coroutine that can continue, and a process
\* that has work left or is about to exit does so
SpecShell ==
  /\ InitShell
  /\ [][NextShell]_vars
  /\ WF_vars(ShellSpawn)
  /\ WF_vars(ShellCollect)
  /\ WF_vars(ProcRun)
  /\ WF_vars(ProcExit)

(* C19: every call that falls back to a shell process eventually returns,
   whatever the process does: a process that does not finish is terminated
   and the call answers. *)
C19_ShellCallReturns ==
  (shell.pc = "communicate") ~> (shell.pc \in {"returned", "faulted"})

(* C20: delete_file(p) fails and leaves the tree, the project state and the
   snapshot as they were whenever p names neither a file nor a directory, or
   names a directory that is not empty; the children of a non-empty
   directory are never removed. *)
C20_DeleteRefuses ==
  [][\A p \in PathArgs :
       (/\ served' = served + 1
        /\ last'.op = "delete_file"
        /\ last'.arg = p
        /\ \/ CanonLoc(p) \notin fsDirs \cup DOMAIN fsFiles
           \/ (CanonLoc(p) \in fsDirs /\ Children(fsDirs, fsFiles, CanonLoc(p)) # {}))
       => (/\ ~last'.ok
           /\ UNCHANGED <<fsDirs, fsFiles, heap, modRef, snapshot>>)
    ]_vars

\* a delete_file refused for a directory that still has a child
C20_Witness ==
  /\ last.op = "delete_file"
  /\ ~last.ok
  /\ CanonLoc(last.arg) \in fsDirs
  /\ Inside(CanonLoc(last.arg))
  /\ Children(fsDirs, fsFiles, CanonLoc(last.arg)) # {}

(* C21: read_file(p) fails (raises to its caller) whenever no regular file
   exists at p; it does not return a value in that case. *)
C21_ReadMissingFails ==
  (last.op = "read_file" /\ CanonLoc(last.arg) \notin DOMAIN fsFiles) => ~last.ok

(* C22: get_safe_path treats "\" and "/" as the same separator: for every
   input its outcome (the location returned, or the rejection) is the
   outcome for the input with every "\" replaced by "/". *)
C22_SeparatorsUniform ==
  resolved # Pending => resolved = get_safe_path(Replace(input, BSL, SEP))

(* C23: the directory a console command acts on is the working directory
   itself: pwd reports it, ls lists its direct children, the operand of
   cat/type, mkdir and touch is taken from it, and the shell process of a
   line outside the vocabulary is started in it. *)
C23_ConsoleActsOnCwd ==
  (last.op = "console" /\ CommandWord(last.arg) # <<>>) =>
    LET word == CommandWord(last.arg)
        here == Resolve(PurePath(cwd))
        there == OperandLoc(cwd, Operand(last.arg, <<>>))
    IN /\ word = wPwd => (last.ok /\ last.ret.result = <<"path", cwd>>)
       /\ word = <<"l", "s">> =>
            (/\ last.ok
             /\ last.ret.result =
                  <<"items", {l[Len(l)] : l \in Children(fsDirs, fsFiles, here)}>>)
       /\ (word \in {<<"c", "a", "t">>, <<"t", "y", "p", "e">>}
             /\ Inside(there) /\ there \in DOMAIN fsFiles) =>
            (last.ok /\ last.ret.result = <<"content", fsFiles[there]>>)
       /\ (word = wMkdir /\ last.ok /\ last.ret.result[1] = "Directory created") =>
            there \in fsDirs
       /\ (word \in {<<"t", "o", "u", "c", "h">>, <<"e", "c", "h", "o", ".">>}
             /\ last.ok /\ last.ret.result[1] = "File touched") =>
            there \in fsDirs \cup DOMAIN fsFiles
       /\ word \notin Vocabulary =>
            (last.ok /\ last.ret.result = <<"output", last.arg, cwd>>)

(* C24: after a successful list_files(d) the project state that the
   rescans, the save and the reset work on holds every direct child of d in
   the matching set, and still holds every entry it held before the call. *)
C24_ListFeedsSharedStore ==
  [][\A d \in ListArgs :
       (/\ served' = served + 1
        /\ last'.op = "list_files"
        /\ last'.arg = d
        /\ last'.ok)
       => LET seen == Listing(fsDirs, fsFiles, CanonLoc(d)) IN
          /\ {e.rel : e \in {x \in seen : x.isDirectory}} \subseteq heap'[modRef'].folders
          /\ {e.rel : e \in {x \in seen : ~x.isDirectory}} \subseteq heap'[modRef'].files
          /\ heap[modRef].folders \subseteq heap'[modRef'].folders
          /\ heap[modRef].files \subseteq heap'[modRef'].files
    ]_vars

\* the primitives that end with update_project_state, and the arguments a
\* successful call for (arg, content) passes to it
Updaters == {"create_folder", "create_file", "write_to_file", "delete_file"}
UpdateArgs(op, arg, content) ==
  CASE op = "create_folder" -> create_folder(fsDirs, fsFiles, arg).upd
    [] op = "create_file" -> create_file(fsDirs, fsFiles, arg, content, "none").upd
    [] op = "write_to_file" -> write_to_file(fsDirs, fsFiles, arg, content, "none").upd
    [] op = "delete_file" -> delete_file(fsDirs, fsFiles, arg).upd

(* C25: update_project_state(path, is_folder, is_delete) adds path to
   folders (is_folder) or files (otherwise) when is_delete is false and
   removes it from that same set when is_delete is true; the other set and
   every other entry stay as they were, whatever the tree holds, and the
   snapshot written afterwards holds the result. *)
C25_IncrementalUpdate ==
  [][\A op \in Updaters :
       (served' = served + 1 /\ last'.op = op /\ last'.ok) =>
         LET upd == UpdateArgs(op, last'.arg, last'.content)
             path == upd[1]
             is_folder == upd[2]
             is_delete == upd[3]
             before == heap[modRef]
             after == heap'[modRef']
         IN /\ (is_folder /\ ~is_delete) =>
                 after = [folders |-> before.folders \cup {path}, files |-> before.files]
            /\ (~is_folder /\ ~is_delete) =>
                 after = [folders |-> before.folders, files |-> before.files \cup {path}]
            /\ (is_folder /\ is_delete) =>
                 after = [folders |-> before.folders \ {path}, files |-> before.files]
            /\ (~is_folder /\ is_delete) =>
                 after = [folders |-> before.folders, files |-> before.files \ {path}]
            /\ load_state_from_file(snapshot') = [ok |-> TRUE, state |-> after]
    ]_vars

\* a delete has taken the entry of a file out of files and left folders alone
C25_Witness ==
  /\ last.op = "delete_file"
  /\ last.ok
  /\ last.arg = sAB
  /\ heap[modRef].files = {}
  /\ sA \in heap[modRef].folders

\* the entries of the module's state that name the object p names, by name
\* (".", ".." and doubled separators folded, links not followed)
EntriesFor(p) ==
  {e \in heap[modRef].folders \cup heap[modRef].files : LexLoc(e) = LexLoc(p)}

(* C26: every entry a primitive leaves in folders or files is the
   normalized root-relative form of its path, so a filesystem object has at
   most one entry whatever spelling the caller used: exactly one after a
   successful create_file or write_to_file, none after a successful
   delete_file. *)
C26_OneEntryPerObject ==
  (last.op \in Updaters /\ last.ok) =>
     /\ \A e \in heap[modRef].folders \cup heap[modRef].files :
          e = LStrip(NormPath(e), SEP)
     /\ last.op \in {"create_file", "write_to_file"} =>
          Cardinality(EntriesFor(last.arg)) = 1
     /\ last.op = "delete_file" => EntriesFor(last.arg) = {}

(***************************************************************************)
(* The three sandbox checks side by side: get_safe_path (shared_utils.py), *)
(* is_safe_path and the safe_path_operation wrapper (backend.py), each     *)
(* applied to every string up to MaxInputLen over CheckAlphabet            *)
(***************************************************************************)
\* os.path.abspath of a path that is already absolute
AbsPath(s) == NormPath(s)

RECURSIVE CommonPrefix(_, _)
CommonPrefix(a, b) ==
  IF a = <<>> \/ b = <<>> \/ Head(a) # Head(b) THEN <<>>
  ELSE <<Head(a)>> \o CommonPrefix(Tail(a), Tail(b))

\* os.path.commonpath([a, b]) of two absolute paths: empty and "."
\* components are dropped, the common leading components joined after "/"
CommonPath(a, b) ==
  LET comps(s) == SelectSeq(Split(s, SEP), LAMBDA c : c # <<>> /\ c # <<DOT>>)
  IN <<SEP>> \o Join(CommonPrefix(comps(a), comps(b)), SEP)

is_safe_path(path) ==
  LET abs_projects_dir == AbsPath(PROJECTS_DIR)
      abs_path == AbsPath(OsPathJoin(PROJECTS_DIR, path))
  IN CommonPath(abs_projects_dir, abs_path) = abs_projects_dir

\* the test of the safe_path_operation wrapper: TRUE when the wrapped
\* function is called, FALSE when the wrapper raises the 403
safe_path_operation(path) ==
  LET full_path == AbsPath(OsPathJoin(PROJECTS_DIR, path))
  IN StartsWith(full_path, PROJECTS_DIR)

CheckAlphabet == {SEP, DOT, "p", "a", "s"}
CheckInputs == UNION {[1..k -> CheckAlphabet] : k \in 0..MaxInputLen}

Checks == {"get_safe_path", "is_safe_path", "safe_path_operation"}
NoVerdicts == [c \in Checks |-> "pending"]
Verdict(accepted) == IF accepted THEN "accepted" ELSE "rejected"

InitSandbox ==
  /\ fsDirs = {<<>>, RootLoc, OutsideDir}
  /\ fsFiles = NoFiles
  /\ heap = [i \in ObjIds |-> EmptyState]
  /\ modRef = 0
  /\ backRef = 0
  /\ snapshot = Absent
  /\ cwd = PROJECTS_DIR
  /\ phase = "imported"
  /\ last = NoCall
  /\ served = 0
  /\ input \in CheckInputs
  /\ resolved = NoVerdicts
  /\ AuxIdle

Checked(check, accepted) ==
  /\ resolved[check] = "pending"
  /\ resolved' = [resolved EXCEPT ![check] = Verdict(accepted)]
  /\ UNCHANGED <<fsDirs, fsFiles, heap, modRef, backRef, snapshot, cwd, phase,
                 last, served, input>>
  /\ UNCHANGED aux

CheckGetSafePath == Checked("get_safe_path", get_safe_path(input).ok)
CheckIsSafePath == Checked("is_safe_path", is_safe_path(input))
CheckWrapper == Checked("safe_path_operation", safe_path_operation(input))

NextSandbox == CheckGetSafePath \/ CheckIsSafePath \/ CheckWrapper

SpecSandbox == InitSandbox /\ [][NextSandbox]_vars

\* loc lies beside the root in a directory whose name begins with the
\* root's name without being it ("/root-evil" for "/root")
PrefixSibling(loc) ==
  /\ loc # <<>>
  /\ loc[1] # RootLoc[1]
  /\ StartsWith(loc[1], RootLoc[1])

\* where each check takes its input to lead
TargetOfCheck(check, path) ==
  IF check = "get_safe_path" THEN CanonLoc(path)
  ELSE PurePath(AbsPath(OsPathJoin(PROJECTS_DIR, path))).parts

(* C27: each of the three sandbox checks decides by ancestry, component by
   component: an input that leads to a sibling of the root whose name
   merely starts with the root's name is rejected by each of them, and the
   three checks accept exactly the same inputs. *)
C27_ChecksByAncestry ==
  (\A c \in Checks : resolved[c] # "pending") =>
     /\ \A c \in Checks :
          PrefixSibling(TargetOfCheck(c, input)) => resolved[c] = "rejected"
     /\ \A c, d \in Checks : resolved[c] = resolved[d]

(***************************************************************************)
(* The retry wrapper under cancellation: the task that runs                *)
(* retry_file_operation is cancelled from outside while it is suspended in *)
(* an attempt or in the delay, and asyncio raises CancelledError at that   *)
(* await                                                                   *)
(***************************************************************************)
CancelledError == [kind |-> "cancelled", call |-> 0]

\* an except clause that catches everything (except BaseException)
CaughtByBareExcept(e) == TRUE

\* except Exception as e: CancelledError derives from BaseException
CaughtByExcept(e) == e.kind = "error"

InitCancel ==
  /\ MainIdle
  /\ tasks = NoTasks
  /\ expected = EmptyState
  /\ shell = NoShell
  /\ \E c \in 0..MaxCeiling, pl \in Plans :
       retry = [pc |-> "loop", max_attempts |-> c, plan |-> pl, attempt |-> 0,
                calls |-> 0, delays |-> 0, outcome |-> "none", value |-> None,
                cancel |-> "none"]

\* the wrapper runs on while no cancellation is pending
RetryRun ==
  /\ retry.cancel # "requested"
  /\ NextRetry

\* Task.cancel() from outside, while the wrapper is suspended at an await
CancelRequest ==
  /\ retry.cancel = "none"
  /\ \/ retry.pc = "sleep"
     \/ retry.pc = "loop" /\ retry.attempt < retry.max_attempts
  /\ retry' = [retry EXCEPT !.cancel = "requested"]
  /\ UNCHANGED <<main, tasks, expected, shell>>

\* await operation(...) raises CancelledError inside the try block
CancelInAttempt ==
  /\ retry.cancel = "requested"
  /\ retry.pc = "loop"
  /\ LET k == retry.calls + 1 IN
     IF ~CaughtByExcept(CancelledError)
     THEN retry' = [retry EXCEPT !.calls = k, !.pc = "cancelled", !.cancel = "delivered",
                                 !.outcome = "cancelled", !.value = CancelledError]
     ELSE IF IsLastAttempt(retry.attempt, retry.max_attempts)
     THEN retry' = [retry EXCEPT !.calls = k, !.pc = "done", !.cancel = "delivered",
                                 !.outcome = "raised", !.value = CancelledError]
     ELSE retry' = [retry EXCEPT !.calls = k, !.pc = "sleep", !.cancel = "delivered"]
  /\ UNCHANGED <<main, tasks, expected, shell>>

\* await asyncio.sleep(delay) raises CancelledError; the await stands in
\* the except block, outside the try
CancelInSleep ==
  /\ retry.cancel = "requested"
  /\ retry.pc = "sleep"
  /\ retry' = [retry EXCEPT !.pc = "cancelled", !.cancel = "delivered",
                            !.outcome = "cancelled", !.value = CancelledError]
  /\ UNCHANGED <<main, tasks, expected, shell>>

NextCancel == RetryRun \/ CancelRequest \/ CancelInAttempt \/ CancelInSleep

SpecCancel == InitCancel /\ [][NextCancel]_vars

(* C28: when the task is cancelled while retry_file_operation waits in its
   delay or inside an attempt, the wrapper stops there: the cancellation
   goes to the caller, it is not counted as a failed attempt, and no
   further attempt or delay follows. *)
C28_CancelStopsRetry ==
  [][/\ retry'.cancel = "delivered" =>
          /\ retry'.pc = "cancelled"
          /\ retry'.outcome = "cancelled"
          /\ retry'.value = CancelledError
     /\ retry.cancel = "delivered" =>
          /\ retry'.calls = retry.calls
          /\ retry'.delays = retry.delays
    ]_vars

\* cancelled after two calls and one delay, with attempts still to go
C28_Witness ==
  /\ retry.pc = "cancelled"
  /\ retry.calls = 2
  /\ retry.delays = 1
  /\ retry.max_attempts = MaxCeiling

(* C29: the working directory changes only in a console call for cd that
   found the directory it resolved and answered "Changed directory to";
   every other console call (ls, pwd, echo, cat/type, mkdir, touch, a cd
   that fails, a shell line, a call that faults) and every primitive,
   rescan and reset leaves it as it was. *)
C29_OnlyCdMovesCwd ==
  [][cwd' # cwd =>
       /\ served' = served + 1
       /\ last'.op = "console"
       /\ CommandWord(last'.arg) = wCd
       /\ last'.ok
       /\ last'.ret.result[1] = "Changed directory to"
       /\ Resolve(PurePath(cwd')) \in fsDirs
       /\ UNCHANGED <<fsDirs, fsFiles>>
    ]_vars

\* a pwd served after a cd has moved the working directory
C29_Witness ==
  /\ last.op = "console"
  /\ CommandWord(last.arg) = wPwd
  /\ last.ok
  /\ cwd # PROJECTS_DIR

(* C30: incremental maintenance agrees with a full rescan: when folders and
   files equal what a rescan of the tree would give, they still do after a
   successful create_folder, create_file, write_to_file or delete_file. *)
C30_IncrementalIsRescan ==
  [][(/\ heap[modRef] = TreeState
      /\ served' = served + 1
      /\ last'.op \in Updaters
      /\ last'.ok)
     => heap'[modRef'] = TreeState'
    ]_vars

\* the call in slot s returns in this step, after its read-back
Returns(s) ==
  /\ s \in DOMAIN tasks
  /\ tasks[s].pc = "readback"
  /\ s \notin DOMAIN tasks'

(* C31: for every interleaving of create_file, write_to_file and
   delete_file calls, a write call returns success only if, at the moment
   it returns, the file exists and holds exactly the content the call was
   asked to write, and it fails the content verification only if that
   content is not on disk. *)
C31_VerifiedWhenReturned ==
  [][\A s \in Slots : Returns(s) =>
       LET f == tasks[s]
           on_disk == f.loc \in DOMAIN fsFiles' /\ fsFiles'[f.loc] = f.content
       IN /\ last'.ok => on_disk
          /\ (~last'.ok /\ f.got # f.content) => ~on_disk
    ]_vars

(* C32: a create_folder, create_file, write_to_file or delete_file call
   that fails leaves the folders and files sets in memory and the snapshot
   exactly as they were before the call, also when it has changed the tree
   (parent directories made, file written with other content). *)
C32_FailureKeepsState ==
  [][(/\ served' = served + 1
      /\ last'.op \in Updaters
      /\ ~last'.ok)
     => UNCHANGED <<heap, modRef, backRef, snapshot>>
    ]_vars

\* a create_file that failed its read-back after making the parent
\* directory and leaving a file with other content
C32_Witness ==
  /\ last.op = "create_file"
  /\ ~last.ok
  /\ last.arg = sAB
  /\ CanonLoc(sAB) \in DOMAIN fsFiles
  /\ fsFiles[CanonLoc(sAB)] # last.content
  /\ sAB \notin heap[modRef].files

(* C33: no console call changes the project state: after any call of
   console_execute_command (mkdir and touch, which make entries in the
   tree, and lines handed to the shell included) the folders and files sets
   in memory and the snapshot are what they were before, so what the
   console made is not in the state. *)
C33_ConsoleKeepsState ==
  [][(served' = served + 1 /\ last'.op = "console")
     => UNCHANGED <<heap, modRef, backRef, snapshot>>
    ]_vars

\* a mkdir has made a directory below the root that folders does not hold
C33_Witness ==
  /\ last.op = "console"
  /\ CommandWord(last.arg) = wMkdir
  /\ last.ok
  /\ last.ret.result[1] = "Directory created"
  /\ \E d \in fsDirs :
       Inside(d) /\ d # RootLoc /\ RelOf(d) \notin heap[modRef].folders

====
